---- MODULE Spec2Model ----
(***************************************************************************)
(* Model of the food diary / weight tracking application (src/main.py).   *)
(* One Streamlit session: the session state (food_items,                  *)
(* preserve_player_id), the two MongoDB collections the session inserts   *)
(* into, and the three operations a button press runs.                    *)
(***************************************************************************)
EXTENDS Integers, Sequences, FiniteSets, TLC

VARIABLES food_items, preserve_player_id, meal_diary_entries,
          weight_registration, last, connLog, date_arg, date_int

vars == <<food_items, preserve_player_id, meal_diary_entries,
          weight_registration, last, connLog, date_arg, date_int>>

(* ---------------- bounds ---------------- *)
\* the number of accepted operations (food elements added and records
\* inserted) a behaviour is followed for
MaxOps == 3

(* ---------------- program constants ---------------- *)
MEAL_TYPES == <<"Breakfast", "Lunch", "Dinner", "Snack">>
AMOUNT_UNITS == <<"gr", "ml", "tas", "snede", "el", "kl", "stuk">>
DAY_TYPES_FOOD == <<"Match", "Training", "Rest">>
DAY_TYPES_WEIGHT == <<"Wedstrijd", "Training">>

\* Python's None (an unset selectbox / radio, the initial preserve_player_id)
None == "None"

\* the roster collection's player_id column (external, read-only)
Roster == <<"P1", "P2">>

Range(s) == {s[i] : i \in 1..Len(s)}

(* ---------------- str.strip ---------------- *)
Whitespace == {" ", "\t"}

RECURSIVE LStrip(_)
LStrip(s) == IF s = <<>> THEN <<>>
             ELSE IF Head(s) \in Whitespace THEN LStrip(Tail(s)) ELSE s

RECURSIVE RStrip(_)
RStrip(s) == IF s = <<>> THEN <<>>
             ELSE IF s[Len(s)] \in Whitespace
                  THEN RStrip(SubSeq(s, 1, Len(s) - 1)) ELSE s

strip(s) == RStrip(LStrip(s))

(* ---------------- strftime ---------------- *)
Digits == <<"0", "1", "2", "3", "4", "5", "6", "7", "8", "9">>

Pad2(n) == Digits[((n \div 10) % 10) + 1] \o Digits[(n % 10) + 1]

\* time.strftime("%H:%M")
strftime_HM(t) == Pad2(t.hour) \o ":" \o Pad2(t.minute)

\* date.strftime("%Y%m%d") as a sequence of characters
\* mutation of strftime_Ymd: month and day without zero padding ("%Y%-m%-d")
strftime_Ymd_unpadded(d) ==
    LET num(n) == IF n >= 10 THEN <<Digits[(n \div 10) + 1], Digits[(n % 10) + 1]>>
                  ELSE <<Digits[n + 1]>>
    IN  <<Digits[((d.year \div 1000) % 10) + 1], Digits[((d.year \div 100) % 10) + 1],
          Digits[((d.year \div 10) % 10) + 1], Digits[(d.year % 10) + 1]>>
        \o num(d.month) \o num(d.day)

strftime_Ymd(d) ==
    <<Digits[((d.year \div 1000) % 10) + 1], Digits[((d.year \div 100) % 10) + 1],
      Digits[((d.year \div 10) % 10) + 1], Digits[(d.year % 10) + 1],
      Digits[((d.month \div 10) % 10) + 1], Digits[(d.month % 10) + 1],
      Digits[((d.day \div 10) % 10) + 1], Digits[(d.day % 10) + 1]>>

\* int() of a string of decimal digits
DigitVal(c) == CHOOSE n \in 0..9 : Digits[n + 1] = c

RECURSIVE int(_)
int(s) == IF s = <<>> THEN 0
          ELSE int(SubSeq(s, 1, Len(s) - 1)) * 10 + DigitVal(s[Len(s)])

\* int(date.strftime("%Y%m%d")), lines 152 and 173
encode_date(d) == int(strftime_Ymd(d))

(* ---------------- data model classes ---------------- *)

\* FoodItem.to_dict, lines 128-135
FoodItem_to_dict(item) ==
    [time |-> item.time, food_product |-> item.food_product,
     amount_value |-> item.amount_value, amount_unit |-> item.amount_unit]

\* the list comprehension of line 155
items_to_dicts(items) == [i \in 1..Len(items) |-> FoodItem_to_dict(items[i])]

\* mutation of MealEntry_to_dict: the food items in reverse order
MealEntry_to_dict_reversed(player_id, meal_date, day_type, meal_type, items) ==
    [player_id |-> player_id, meal_date |-> encode_date(meal_date),
     day_type |-> day_type, meal_type |-> meal_type,
     meal_elements |-> [i \in 1..Len(items) |-> FoodItem_to_dict(items[Len(items) + 1 - i])]]

\* MealEntry(...).to_dict(), lines 148-156
MealEntry_to_dict(player_id, meal_date, day_type, meal_type, items) ==
    [player_id |-> player_id, meal_date |-> encode_date(meal_date),
     day_type |-> day_type, meal_type |-> meal_type,
     meal_elements |-> items_to_dicts(items)]

\* mutation of WeightEntry_to_dict: the two weights exchanged
WeightEntry_to_dict_swapped(player_id, registration_date, day_type, weight_before, weight_after) ==
    [player_id |-> player_id, registration_date |-> encode_date(registration_date),
     day_type |-> day_type, weight_before |-> weight_after, weight_after |-> weight_before]

\* WeightEntry(...).to_dict(), lines 169-177
WeightEntry_to_dict(player_id, registration_date, day_type, weight_before, weight_after) ==
    [player_id |-> player_id, registration_date |-> encode_date(registration_date),
     day_type |-> day_type, weight_before |-> weight_before, weight_after |-> weight_after]

(* ---------------- the three operations ---------------- *)
\* Each operator gives the outcome of one call: the message shown ("result"),
\* the session state and collection after the call, and the collections the
\* call tried to connect to.

\* mutation of validate_and_add_food_item: the amount test left out
validate_and_add_food_item_no_amount_check(items, time, food_product, amount_value, amount_unit) ==
    IF strip(food_product) = <<>>
    THEN [result |-> "warning_empty", food_items |-> items]
    ELSE [result |-> "success",
          food_items |-> Append(items,
              [time |-> strftime_HM(time), food_product |-> strip(food_product),
               amount_value |-> amount_value, amount_unit |-> amount_unit])]

\* mutation of validate_and_add_food_item: insert(0, ...) for append
validate_and_add_food_item_prepend(items, time, food_product, amount_value, amount_unit) ==
    IF strip(food_product) = <<>>
    THEN [result |-> "warning_empty", food_items |-> items]
    ELSE IF amount_value <= 0
    THEN [result |-> "warning_amount", food_items |-> items]
    ELSE [result |-> "success",
          food_items |-> <<[time |-> strftime_HM(time), food_product |-> strip(food_product),
                            amount_value |-> amount_value, amount_unit |-> amount_unit]>>
                         \o items]

\* lines 263-279
validate_and_add_food_item(items, time, food_product, amount_value, amount_unit) ==
    IF strip(food_product) = <<>>
    THEN [result |-> "warning_empty", food_items |-> items]
    ELSE IF amount_value <= 0
    THEN [result |-> "warning_amount", food_items |-> items]
    ELSE [result |-> "success",
          food_items |-> Append(items,
              [time |-> strftime_HM(time), food_product |-> strip(food_product),
               amount_value |-> amount_value, amount_unit |-> amount_unit])]

\* mutation of no_food_items: the emptiness test left out
no_food_items_never(items) == FALSE

\* "not st.session_state.food_items", line 284
no_food_items(items) == items = <<>>

\* mutation of submit_meal_entry: the form is reset before the insert is known to have succeeded
submit_meal_entry_reset_first(items, preserved, collection, player_id, meal_date, day_type, meal_type, connOk, insertOk) ==
    IF no_food_items(items)
    THEN [result |-> "error_validation", food_items |-> items,
          preserve_player_id |-> preserved, collection |-> collection,
          connects |-> <<>>]
    ELSE IF ~connOk \/ ~insertOk
    THEN [result |-> "error_failed", food_items |-> <<>>,
          preserve_player_id |-> player_id, collection |-> collection,
          connects |-> <<"meal_diary_entries">>]
    ELSE [result |-> "success", food_items |-> <<>>,
          preserve_player_id |-> player_id,
          collection |-> Append(collection,
              MealEntry_to_dict(player_id, meal_date, day_type, meal_type, items)),
          connects |-> <<"meal_diary_entries">>]

\* lines 281-313; connOk: connect_to_mongodb returned a collection (lines 39-90),
\* insertOk: insert_one did not raise. insert_one is taken as atomic: when it
\* raises, the collection holds no new document.
submit_meal_entry(items, preserved, collection, player_id, meal_date, day_type, meal_type, connOk, insertOk) ==
    IF no_food_items(items)
    THEN [result |-> "error_validation", food_items |-> items,
          preserve_player_id |-> preserved, collection |-> collection,
          connects |-> <<>>]
    ELSE IF ~connOk \/ ~insertOk
    THEN [result |-> "error_failed", food_items |-> items,
          preserve_player_id |-> preserved, collection |-> collection,
          connects |-> <<"meal_diary_entries">>]
    ELSE [result |-> "success", food_items |-> <<>>,
          preserve_player_id |-> player_id,
          collection |-> Append(collection,
              MealEntry_to_dict(player_id, meal_date, day_type, meal_type, items)),
          connects |-> <<"meal_diary_entries">>]

\* mutation of weights_not_positive: < for <=
weights_not_positive_strict(weight_before, weight_after) ==
    weight_before < 0 \/ weight_after < 0

\* mutation of weights_not_positive: and for or
weights_not_positive_both(weight_before, weight_after) ==
    weight_before <= 0 /\ weight_after <= 0

\* "weight_before <= 0 or weight_after <= 0", line 367
weights_not_positive(weight_before, weight_after) ==
    weight_before <= 0 \/ weight_after <= 0

\* lines 364-395
submit_weight_entry(preserved, collection, player_id, registration_date, day_type, weight_before, weight_after, connOk, insertOk) ==
    IF weights_not_positive(weight_before, weight_after)
    THEN [result |-> "error_validation", preserve_player_id |-> preserved,
          collection |-> collection, connects |-> <<>>]
    ELSE IF ~connOk \/ ~insertOk
    THEN [result |-> "error_failed", preserve_player_id |-> preserved,
          collection |-> collection, connects |-> <<"weight_registration">>]
    ELSE [result |-> "success", preserve_player_id |-> player_id,
          collection |-> Append(collection,
              WeightEntry_to_dict(player_id, registration_date, day_type,
                                  weight_before, weight_after)),
          connects |-> <<"weight_registration">>]

(* ---------------- the form ---------------- *)

\* get_player_ids, lines 92-113: the roster's player_id column, or an empty
\* Series when the roster collection cannot be read
get_player_ids(rosterOk) == IF rosterOk THEN Roster ELSE <<>>

\* st.selectbox of lines 200-208 and 325-333: pre-selects the remembered
\* player when the roster holds it, else nothing; the user keeps that or
\* picks an option
selectbox(options, preserved) ==
    Range(options) \cup {IF preserved \in Range(options) THEN preserved ELSE None}

(* ---------------- inputs ---------------- *)
Date(y, m, d) == [year |-> y, month |-> m, day |-> d]
Time(h, m, s) == [hour |-> h, minute |-> m, second |-> s]

\* what the user enters in the food element form, lines 249-258; the call is
\* followed over the whole domain of its parameters, amounts <= 0 included
FoodInputs ==
    { <<Time(8, 0, 0), <<" ", "a", " ", "b", "\t">>, 200, AMOUNT_UNITS[1]>>,
      <<Time(13, 5, 30), <<"c">>, 1, AMOUNT_UNITS[2]>>,
      <<Time(8, 0, 0), <<>>, 200, AMOUNT_UNITS[1]>>,
      <<Time(8, 0, 0), <<" ", "\t">>, 200, AMOUNT_UNITS[1]>>,
      <<Time(13, 5, 30), <<"c">>, 0, AMOUNT_UNITS[2]>>,
      <<Time(13, 5, 30), <<"c">>, -1, AMOUNT_UNITS[2]>> }

\* date, day type and meal type of the food diary form, lines 210-231 (a
\* radio left untouched gives None)
MealInputs ==
    { <<Date(2024, 5, 1), DAY_TYPES_FOOD[2], MEAL_TYPES[1]>>,
      <<Date(1999, 12, 31), None, None>> }

\* date, day type and the two weights (in units of 0.1 kg) of the weight
\* form, lines 335-355
WeightInputs ==
    { <<Date(2024, 5, 2), DAY_TYPES_WEIGHT[1], 705, 698>>,
      <<Date(1999, 12, 31), None, 698, 705>>,
      <<Date(2024, 5, 2), DAY_TYPES_WEIGHT[2], 0, 698>>,
      <<Date(2024, 5, 2), DAY_TYPES_WEIGHT[2], 705, 0>>,
      <<Date(2024, 5, 2), DAY_TYPES_WEIGHT[2], -5, 705>> }

\* the accepted operations behind a state: one per pending food element, one
\* per stored record and one per food element of a stored meal
RECURSIVE Elements(_)
Elements(meals) ==
    IF meals = <<>> THEN 0 ELSE Len(Head(meals).meal_elements) + Elements(Tail(meals))

Ops(items, meals, weights) == Len(items) + Len(meals) + Elements(meals) + Len(weights)

(* ---------------- state machine ---------------- *)

\* what the database did in a submit call: nothing ("unused") when the call
\* never reached connect_to_mongodb, else the failure of connect_to_mongodb
\* (it returns None, lines 77-90), the failure of insert_one, or "ok"
db_outcome(connects, connOk, insertOk) ==
    IF connects = <<>> THEN "unused"
    ELSE IF ~connOk THEN "no_connection"
    ELSE IF ~insertOk THEN "insert_error"
    ELSE "ok"

\* initialize_session_state, lines 183-188, on the session's first run
Init ==
    /\ food_items = <<>>
    /\ preserve_player_id = None
    /\ meal_diary_entries = <<>>
    /\ weight_registration = <<>>
    /\ last = [op |-> "start", args |-> <<>>, db |-> "unused", result |-> "none"]
    /\ connLog = <<>>
    /\ date_arg = Date(1900, 1, 1)
    /\ date_int = -1

\* a script run in which no button is pressed, or in which the roster cannot
\* be read so that no form is shown (lines 195-198, 320-323)
Render(rosterOk) ==
    /\ last' = [op |-> "render", args |-> <<>>, db |-> "unused", result |-> IF rosterOk THEN "form" ELSE "no_data"]
    /\ connLog' = <<"roster", "roster">>
    /\ UNCHANGED <<food_items, preserve_player_id, meal_diary_entries,
                   weight_registration, date_arg, date_int>>

\* a script run with "Add food element" pressed, lines 260-261
AddFoodElement(in) ==
    LET out == validate_and_add_food_item(food_items, in[1], in[2], in[3], in[4])
    IN  /\ get_player_ids(TRUE) # <<>>
        /\ Ops(out.food_items, meal_diary_entries, weight_registration) <= MaxOps
        /\ food_items' = out.food_items
        /\ last' = [op |-> "add_item", args |-> in, db |-> "unused", result |-> out.result]
        /\ connLog' = <<"roster", "roster">>
        /\ UNCHANGED <<preserve_player_id, meal_diary_entries,
                       weight_registration, date_arg, date_int>>

\* a script run with "Add meal" pressed, lines 239-240; st.rerun() (line 309)
\* ends the run before the weight tab is rendered
AddMeal(player_id, in, connOk, insertOk) ==
    LET out == submit_meal_entry(food_items, preserve_player_id, meal_diary_entries,
                                 player_id, in[1], in[2], in[3], connOk, insertOk)
    IN  /\ get_player_ids(TRUE) # <<>>
        /\ player_id \in selectbox(get_player_ids(TRUE), preserve_player_id)
        /\ Ops(out.food_items, out.collection, weight_registration) <= MaxOps
        /\ food_items' = out.food_items
        /\ preserve_player_id' = out.preserve_player_id
        /\ meal_diary_entries' = out.collection
        /\ last' = [op |-> "submit_meal", args |-> <<player_id>> \o in,
                    db |-> db_outcome(out.connects, connOk, insertOk), result |-> out.result]
        /\ connLog' = <<"roster">> \o out.connects
                      \o (IF out.result = "success" THEN <<>> ELSE <<"roster">>)
        /\ UNCHANGED <<weight_registration, date_arg, date_int>>

\* a script run with "Add weight registration" pressed, lines 357-358
AddWeight(player_id, in, connOk, insertOk) ==
    LET out == submit_weight_entry(preserve_player_id, weight_registration,
                                   player_id, in[1], in[2], in[3], in[4], connOk, insertOk)
    IN  /\ get_player_ids(TRUE) # <<>>
        /\ player_id \in selectbox(get_player_ids(TRUE), preserve_player_id)
        /\ Ops(food_items, meal_diary_entries, out.collection) <= MaxOps
        /\ preserve_player_id' = out.preserve_player_id
        /\ weight_registration' = out.collection
        /\ last' = [op |-> "submit_weight", args |-> <<player_id>> \o in,
                    db |-> db_outcome(out.connects, connOk, insertOk), result |-> out.result]
        /\ connLog' = <<"roster", "roster">> \o out.connects
        /\ UNCHANGED <<food_items, meal_diary_entries, date_arg, date_int>>

Players == Range(Roster) \cup {None}

Next ==
    \/ \E rosterOk \in BOOLEAN : Render(rosterOk)
    \/ \E in \in FoodInputs : AddFoodElement(in)
    \/ \E p \in Players, in \in MealInputs, connOk, insertOk \in BOOLEAN :
           AddMeal(p, in, connOk, insertOk)
    \/ \E p \in Players, in \in WeightInputs, connOk, insertOk \in BOOLEAN :
           AddWeight(p, in, connOk, insertOk)

Spec == Init /\ [][Next]_vars

(* ---------------- the date encoding on its own ---------------- *)

ValidYears == {1900, 1999, 2000, 2024, 9999}

IsLeap(y) == (y % 4 = 0 /\ y % 100 # 0) \/ y % 400 = 0

DaysInMonth(y, m) ==
    IF m = 2 THEN (IF IsLeap(y) THEN 29 ELSE 28)
    ELSE IF m \in {4, 6, 9, 11} THEN 30 ELSE 31

\* the datetime.date values the two to_dict methods are given
ValidDates ==
    { dt \in { Date(y, m, d) : y \in ValidYears, m \in 1..12, d \in 1..31 } :
        dt.day <= DaysInMonth(dt.year, dt.month) }

DateInit ==
    /\ food_items = <<>>
    /\ preserve_player_id = None
    /\ meal_diary_entries = <<>>
    /\ weight_registration = <<>>
    /\ last = [op |-> "start", args |-> <<>>, db |-> "unused", result |-> "none"]
    /\ connLog = <<>>
    /\ date_arg \in ValidDates
    /\ date_int = -1

\* "meal_date" of MealEntry(...).to_dict(), line 152
MealDate(player_id, in) ==
    /\ date_int' = MealEntry_to_dict(player_id, date_arg, in[2], in[3], <<>>).meal_date
    /\ last' = [last EXCEPT !.op = "MealEntry.to_dict"]
    /\ UNCHANGED <<food_items, preserve_player_id, meal_diary_entries,
                   weight_registration, connLog, date_arg>>

\* "registration_date" of WeightEntry(...).to_dict(), line 173
RegistrationDate(player_id, in) ==
    /\ date_int' = WeightEntry_to_dict(player_id, date_arg, in[2], in[3], in[4]).registration_date
    /\ last' = [last EXCEPT !.op = "WeightEntry.to_dict"]
    /\ UNCHANGED <<food_items, preserve_player_id, meal_diary_entries,
                   weight_registration, connLog, date_arg>>

DateNext ==
    \/ \E p \in Players, in \in MealInputs : MealDate(p, in)
    \/ \E p \in Players, in \in WeightInputs : RegistrationDate(p, in)

DateSpec == DateInit /\ [][DateNext]_vars

(* ======================= properties ======================= *)

\* the integer YYYYMMDD of a date
DateNumber(d) == d.year * 10000 + d.month * 100 + d.day

\* new is old with exactly one element added at the end
OneAppended(old, new) == Len(new) = Len(old) + 1 /\ SubSeq(new, 1, Len(old)) = old

IsBlank(s) == \A i \in 1..Len(s) : s[i] \in Whitespace

\* t is s without its leading and trailing whitespace
IsTrimOf(t, s) ==
    \E i \in 1..Len(s), j \in 1..Len(s) :
        /\ i <= j
        /\ t = SubSeq(s, i, j)
        /\ s[i] \notin Whitespace /\ s[j] \notin Whitespace
        /\ \A k \in 1..Len(s) : (k < i \/ k > j) => s[k] \in Whitespace

\* str is the zero-padded HH:MM of time t
IsHHMM(str, t) ==
    \E h1 \in 0..2, h2 \in 0..9, m1 \in 0..5, m2 \in 0..9 :
        /\ 10 * h1 + h2 = t.hour
        /\ 10 * m1 + m2 = t.minute
        /\ str = Digits[h1 + 1] \o Digits[h2 + 1] \o ":" \o Digits[m1 + 1] \o Digits[m2 + 1]

LastRecord(collection) == collection[Len(collection)]

\* C1: after a submit_meal with a non-empty pending list whose insert
\* succeeds, exactly one record has been added to the meal collection; its
\* meal_elements are the pending items in the order they were added and its
\* player_id, date, day_type and meal_type are the submitted ones; the
\* pending list is empty and the remembered player_id is the submitted one.
C1_SubmitMealSuccess ==
    [][ (last'.op = "submit_meal" /\ food_items # <<>> /\ last'.db = "ok") =>
          LET a == last'.args
              rec == LastRecord(meal_diary_entries')
          IN  /\ last'.result = "success"
              /\ OneAppended(meal_diary_entries, meal_diary_entries')
              /\ Len(rec.meal_elements) = Len(food_items)
              /\ \A i \in 1..Len(food_items) :
                    /\ rec.meal_elements[i].time = food_items[i].time
                    /\ rec.meal_elements[i].food_product = food_items[i].food_product
                    /\ rec.meal_elements[i].amount_value = food_items[i].amount_value
                    /\ rec.meal_elements[i].amount_unit = food_items[i].amount_unit
              /\ rec.player_id = a[1]
              /\ rec.meal_date = DateNumber(a[2])
              /\ rec.day_type = a[3]
              /\ rec.meal_type = a[4]
              /\ food_items' = <<>>
              /\ preserve_player_id' = a[1]
              /\ weight_registration' = weight_registration ]_vars

C1_Witness ==
    /\ last.op = "submit_meal" /\ last.result = "success"
    /\ last.args[1] = "P2"
    /\ Len(meal_diary_entries) = 1
    /\ Len(meal_diary_entries[1].meal_elements) = 2
    /\ meal_diary_entries[1].meal_elements[1] # meal_diary_entries[1].meal_elements[2]
    /\ food_items = <<>>
    /\ preserve_player_id = "P2"

\* C2: submit_meal with an empty pending list fails with a validation error
\* and inserts nothing: the meal collection, the pending list and the
\* remembered player_id are unchanged, and the call attempts no database
\* connection (the run's only connections are the form's roster reads).
C2_SubmitMealEmpty ==
    [][ (last'.op = "submit_meal" /\ food_items = <<>>) =>
          /\ last'.result = "error_validation"
          /\ last'.db = "unused"
          /\ Range(connLog') \subseteq {"roster"}
          /\ meal_diary_entries' = meal_diary_entries
          /\ weight_registration' = weight_registration
          /\ food_items' = food_items
          /\ preserve_player_id' = preserve_player_id ]_vars

C2_Witness ==
    /\ last.op = "submit_meal" /\ last.result = "error_validation"
    /\ food_items = <<>>
    /\ connLog = <<"roster", "roster">>
    /\ preserve_player_id = "P1"

\* C3: when submit_meal passes validation but the connection cannot be
\* obtained or the insert raises, the failure is reported, the pending list
\* is exactly as it was, the remembered player_id is unchanged and no record
\* is added, and a re-submit of the same pending list whose insert succeeds
\* stores exactly those items.
C3_SubmitMealFailure ==
    [][ (last'.op = "submit_meal" /\ food_items # <<>>
         /\ last'.db \in {"no_connection", "insert_error"}) =>
          LET a == last'.args
              again == submit_meal_entry(food_items', preserve_player_id',
                           meal_diary_entries', a[1], a[2], a[3], a[4], TRUE, TRUE)
          IN  /\ last'.result = "error_failed"
              /\ food_items' = food_items
              /\ preserve_player_id' = preserve_player_id
              /\ meal_diary_entries' = meal_diary_entries
              /\ weight_registration' = weight_registration
              /\ again.result = "success"
              /\ OneAppended(meal_diary_entries, again.collection)
              /\ LastRecord(again.collection).meal_elements = food_items ]_vars

C3_Witness ==
    /\ last.op = "submit_meal" /\ last.result = "error_failed"
    /\ last.db = "insert_error"
    /\ Len(food_items) = 2
    /\ food_items[1] # food_items[2]

\* C4: add_item rejects every candidate whose amount is <= 0 and every
\* candidate whose product name is empty or whitespace-only and then leaves
\* the pending list unchanged; any other candidate becomes the last element
\* of the pending list, with its product name trimmed and its time as HH:MM.
C4_AddItem ==
    [][ last'.op = "add_item" =>
          LET a == last'.args IN
          IF a[3] <= 0 \/ IsBlank(a[2])
          THEN /\ last'.result \in {"warning_empty", "warning_amount"}
               /\ food_items' = food_items
          ELSE /\ last'.result = "success"
               /\ OneAppended(food_items, food_items')
               /\ IsHHMM(LastRecord(food_items').time, a[1])
               /\ IsTrimOf(LastRecord(food_items').food_product, a[2])
               /\ LastRecord(food_items').amount_value = a[3]
               /\ LastRecord(food_items').amount_unit = a[4] ]_vars

C4_Witness ==
    /\ last.op = "add_item" /\ last.result = "warning_amount"
    /\ last.args[3] = 0
    /\ Len(food_items) = 2
    /\ food_items[1].food_product = <<"c">> /\ food_items[1].time = "13:05"
    /\ food_items[2].food_product = <<"a", " ", "b">> /\ food_items[2].time = "08:00"

\* C5: submit_weight with weight_before <= 0 or weight_after <= 0 fails with
\* a validation error and inserts nothing: the weight collection and the
\* remembered player_id are unchanged.
C5_SubmitWeightInvalid ==
    [][ (last'.op = "submit_weight" /\ (last'.args[4] <= 0 \/ last'.args[5] <= 0)) =>
          /\ last'.result = "error_validation"
          /\ last'.db = "unused"
          /\ weight_registration' = weight_registration
          /\ meal_diary_entries' = meal_diary_entries
          /\ preserve_player_id' = preserve_player_id ]_vars

C5_Witness ==
    /\ last.op = "submit_weight" /\ last.result = "error_validation"
    /\ last.args[4] = 0 /\ last.args[5] > 0
    /\ last.args[1] = "P2" /\ preserve_player_id = "P1"
    /\ weight_registration # <<>>

\* C6: in every reachable state no stored meal record has zero food items,
\* every food item of the pending list and of every stored meal record has a
\* strictly positive amount, and every stored weight record has both weights
\* strictly positive.
C6_Invariants ==
    /\ \A i \in 1..Len(food_items) : food_items[i].amount_value > 0
    /\ \A r \in 1..Len(meal_diary_entries) :
          /\ Len(meal_diary_entries[r].meal_elements) > 0
          /\ \A i \in 1..Len(meal_diary_entries[r].meal_elements) :
                meal_diary_entries[r].meal_elements[i].amount_value > 0
    /\ \A r \in 1..Len(weight_registration) :
          /\ weight_registration[r].weight_before > 0
          /\ weight_registration[r].weight_after > 0

C6_Witness ==
    /\ Len(meal_diary_entries) = 1
    /\ Len(weight_registration) = 1
    /\ last.op = "add_item" /\ last.result = "warning_amount"

\* C7: every stored meal record has a player_id that is in the roster.
C7_PlayerInRoster ==
    \A r \in 1..Len(meal_diary_entries) :
        meal_diary_entries[r].player_id \in Range(Roster)

\* C8: after a submit_weight with both weights > 0 whose insert succeeds,
\* exactly one record with the submitted player_id, encoded date, day_type,
\* weight_before and weight_after has been added to the weight collection,
\* the remembered player_id is the submitted one, and the pending list and
\* the meal collection are unchanged.
C8_SubmitWeightSuccess ==
    [][ (last'.op = "submit_weight" /\ last'.args[4] > 0 /\ last'.args[5] > 0
         /\ last'.db = "ok") =>
          LET a == last'.args
              rec == LastRecord(weight_registration')
          IN  /\ last'.result = "success"
              /\ OneAppended(weight_registration, weight_registration')
              /\ rec.player_id = a[1]
              /\ rec.registration_date = DateNumber(a[2])
              /\ rec.day_type = a[3]
              /\ rec.weight_before = a[4]
              /\ rec.weight_after = a[5]
              /\ preserve_player_id' = a[1]
              /\ food_items' = food_items
              /\ meal_diary_entries' = meal_diary_entries ]_vars

C8_Witness ==
    /\ last.op = "submit_weight" /\ last.result = "success"
    /\ last.args[1] = "P2"
    /\ preserve_player_id = "P2"
    /\ Len(weight_registration) = 1
    /\ meal_diary_entries # <<>>
    /\ meal_diary_entries[1].player_id = "P1"

\* C9: the date encoding of meal_date and registration_date maps a date
\* (Y, M, D) to Y*10000 + M*100 + D whatever the other fields are, and is
\* injective: (Y, M, D) is recovered as (n div 10000, (n div 100) mod 100,
\* n mod 100) and no other valid date has the same integer.
C9_DateEncoding ==
    date_int # -1 =>
        /\ date_int = date_arg.year * 10000 + date_arg.month * 100 + date_arg.day
        /\ date_int \div 10000 = date_arg.year
        /\ (date_int \div 100) % 100 = date_arg.month
        /\ date_int % 100 = date_arg.day
        /\ \A d \in ValidDates :
              d # date_arg => encode_date(d) # date_int

C9_Witness ==
    /\ date_arg = Date(2024, 2, 29)
    /\ date_int = 20240229
    /\ last.op = "WeightEntry.to_dict"

\* C10: the pending list is empty at session start, and every step leaves it
\* as it is, appends exactly one item at its end (an accepted add_item) or
\* resets it to empty (a successful submit_meal, together with exactly one
\* insert into the meal collection); no rejected add_item, rejected or failed
\* submit_meal, nor any submit_weight changes it.
C10_PendingLifecycle ==
    /\ food_items = <<>>
    /\ [][ /\ \/ food_items' = food_items
              \/ /\ last'.op = "add_item" /\ last'.result = "success"
                 /\ OneAppended(food_items, food_items')
              \/ /\ last'.op = "submit_meal" /\ last'.result = "success"
                 /\ food_items' = <<>>
                 /\ OneAppended(meal_diary_entries, meal_diary_entries')
           /\ ( \/ last'.op \in {"submit_weight", "render"}
                \/ last'.result \in {"warning_empty", "warning_amount",
                                     "error_validation", "error_failed"} )
                => food_items' = food_items
           /\ meal_diary_entries' # meal_diary_entries =>
                (food_items # <<>> /\ food_items' = <<>>) ]_vars

C10_Witness ==
    /\ last.op = "submit_meal" /\ last.result = "success"
    /\ food_items = <<>>
    /\ Len(meal_diary_entries) = 1
    /\ Len(meal_diary_entries[1].meal_elements) = 1
    /\ weight_registration # <<>>

====
